---- MODULE Spec2Model ----
(***************************************************************************)
(* codalab/lib/worksheet_util.py: the worksheet line grammar               *)
(* (parse_worksheet_form), the directive expander                          *)
(* (expand_worksheet_item_info), the line renderer (get_worksheet_lines)   *)
(* and the full-text edit session (request_new_items).                     *)
(*                                                                         *)
(* A Python string is a sequence of tokens.  A token is one character      *)
(* ("%", " ", ":", "[", ...) or one word that the grammars spell out       *)
(* ("display", "table", "title", ...) or an opaque word ("x", "a1b2c3").   *)
(* No word begins or ends with whitespace, none holds one of the           *)
(* characters % : / [ ] { } or a newline, and none is a part of another,   *)
(* so matching token by token is matching character by character on the    *)
(* strings the tokens spell.                                               *)
(*                                                                         *)
(* The code is Python 2: parse_worksheet_parse_table is a dict, iterated   *)
(* in an order the language does not fix, so the order is a choice made    *)
(* when the module is loaded.                                              *)
(***************************************************************************)
EXTENDS Integers, Sequences, FiniteSets, TLC

VARIABLES
    table,          \* iteration order of the dict parse_worksheet_parse_table
    pc,             \* which call has been made last
    form_result,    \* the list of lines given to parse_worksheet_form
    result,         \* the list of (bundle_uuid, value, type) it returned
    worksheet_info, \* the worksheet info dict: name and items
    lines,          \* the lines get_worksheet_lines yielded
    template_lines, \* request_new_items: the template, line by line
    template,       \* request_new_items: the template written to the file
    edited,         \* request_new_items: the bytes of the file after the editor
    err             \* the exception the last call raised, "none" if it returned

vars == <<table, pc, form_result, result, worksheet_info, lines,
          template_lines, template, edited, err>>

----------------------------------------------------------------------------
(* Python values: None, str; a dict is a record whose fields are its keys. *)

None == [py |-> "None"]
Str(s) == [py |-> "str", s |-> s]
IsStr(v) == "py" \in DOMAIN v /\ v.py = "str"
IsDict(v) == "py" \notin DOMAIN v

\* str.strip() and the class \s of re: the whitespace characters.
Whitespace == {" ", "\t", "\n", "\r", "\f"}

Min(S) == CHOOSE m \in S : \A n \in S : m <= n
Max(S) == CHOOSE m \in S : \A n \in S : m >= n

\* The first index >= from of s holding a token of C; Len(s) + 1 if none.
FirstIdx(s, from, C) == Min({i \in from..Len(s) : s[i] \in C} \cup {Len(s) + 1})

\* The first index >= from of s holding a token outside C; Len(s) + 1 if none.
FirstNotIdx(s, from, C) == Min({i \in from..Len(s) : s[i] \notin C} \cup {Len(s) + 1})

\* s[from:to+1], empty when the range is.
Slice(s, from, to) == IF to < from THEN <<>> ELSE SubSeq(s, from, to)

\* '.' without re.DOTALL matches every character but the newline.
NoNewline(s) == \A i \in 1..Len(s) : s[i] # "\n"

\* str.strip(): the leading and the trailing whitespace removed.
Strip(s) ==
    LET a == FirstNotIdx(s, 1, Whitespace)
        b == Max({i \in 1..Len(s) : s[i] \notin Whitespace} \cup {0})
    IN  Slice(s, a, b)

\* '%s' % v and '{0}'.format(v) of a str or of None.
PyFormat(v) == IF v = None THEN <<"None">> ELSE v.s

----------------------------------------------------------------------------
(* The regular expressions, each as the match object pattern.match(s)      *)
(* returns: matched, and the groups as Python values.                      *)

NoMatch == [matched |-> FALSE]

\* '$' without re.MULTILINE: at the end, or before a newline that ends s.
AtDollar(s, i) == i = Len(s) + 1 \/ (i = Len(s) /\ s[i] = "\n")

\* '\s*\{(.*)\}$' from index j: the whitespace, the brace, the greedy group 3.
BraceTail(s, j) ==
    LET k == FirstNotIdx(s, j, Whitespace)
        E == {e \in (k + 1)..Len(s) :
                s[e] = "}" /\ AtDollar(s, e + 1) /\ NoNewline(Slice(s, k + 1, e - 1))}
    IN  IF k <= Len(s) /\ s[k] = "{" /\ E # {}
        THEN [matched |-> TRUE, g3 |-> Slice(s, k + 1, Max(E) - 1)]
        ELSE NoMatch

\* BUNDLE_LINE_REGEX = '^(\[(.*)\])?\s*\{(.*)\}$'
BUNDLE_LINE_REGEX(s) ==
    LET I == {i \in 2..Len(s) :
                s[1] = "[" /\ s[i] = "]" /\ NoNewline(Slice(s, 2, i - 1))
                /\ BraceTail(s, i + 1).matched}
    IN  IF I # {}
        THEN [matched |-> TRUE,
              g2 |-> Str(Slice(s, 2, Max(I) - 1)),
              g3 |-> Str(BraceTail(s, Max(I) + 1).g3)]
        ELSE IF BraceTail(s, 1).matched
        THEN [matched |-> TRUE, g2 |-> None,
              g3 |-> Str(BraceTail(s, 1).g3)]
        ELSE NoMatch

DisplayModes == {"table", "default", "inline"}

\* BUNDLE_DISPLAY_DIRECTIVE = '% display (table|default|inline)' at index p.
DisplayAt(s, p) ==
    /\ p >= 1
    /\ p + 4 <= Len(s)
    /\ s[p] = "%" /\ s[p + 1] = " " /\ s[p + 2] = "display" /\ s[p + 3] = " "
    /\ s[p + 4] \in DisplayModes

\* BUNDLE_DISPLAY_DIRECTIVE matched as MATCH_DISPLAY_DIRECTIVE_EXPR would, to the
\* end of the line.
BUNDLE_DISPLAY_DIRECTIVE_Anchored(s) ==
    IF DisplayAt(s, 1) /\ AtDollar(s, 6)
    THEN [matched |-> TRUE, g0 |-> Str(SubSeq(s, 1, 5)), g1 |-> Str(<<s[5]>>)]
    ELSE NoMatch

\* re.compile(BUNDLE_DISPLAY_DIRECTIVE).match(s)
BUNDLE_DISPLAY_DIRECTIVE(s) ==
    IF DisplayAt(s, 1)
    THEN [matched |-> TRUE, g0 |-> Str(SubSeq(s, 1, 5)), g1 |-> Str(<<s[5]>>)]
    ELSE NoMatch

FieldKinds == {"image", "metadata"}

\* BUNDLE_DISPLAY_FIELD = '% ([^\:]+): (image|metadata)/(.*)' at index p; the
\* name runs to the first colon, the path to the end of the line, or of the
\* string under re.DOTALL.
FieldAt(s, p, dotall) ==
    LET c == FirstIdx(s, p + 2, {":"})
        e == IF dotall THEN Len(s) ELSE FirstIdx(s, c + 4, {"\n"}) - 1
    IN  IF /\ p >= 1
           /\ c + 3 <= Len(s)
           /\ s[p] = "%" /\ s[p + 1] = " "
           /\ c >= p + 3
           /\ s[c + 1] = " " /\ s[c + 2] \in FieldKinds /\ s[c + 3] = "/"
        THEN [matched |-> TRUE, g0 |-> Str(Slice(s, p, e)),
              g1 |-> Str(Slice(s, p + 2, c - 1)), g2 |-> Str(<<s[c + 2]>>),
              g3 |-> Str(Slice(s, c + 4, e))]
        ELSE NoMatch

\* re.compile(BUNDLE_DISPLAY_FIELD).match(s)
BUNDLE_DISPLAY_FIELD(s) == FieldAt(s, 1, FALSE)

\* '%\s*<word>:\s*(.*)' matched at the start of s.
WordField(s, word) ==
    LET k == FirstNotIdx(s, 2, Whitespace)
        v == FirstNotIdx(s, k + 2, Whitespace)
        e == FirstIdx(s, v, {"\n"}) - 1
    IN  IF /\ k + 1 <= Len(s)
           /\ s[1] = "%" /\ s[k] = word /\ s[k + 1] = ":"
        THEN [matched |-> TRUE, g0 |-> Str(Slice(s, 1, e)), g1 |-> Str(Slice(s, v, e))]
        ELSE NoMatch

\* re.compile(WORKSHEET_TITLE_FIELD).match(s)
WORKSHEET_TITLE_FIELD(s) == WordField(s, "title")

\* re.compile(WORKSHEET_DESCRIPTION_FIELD).match(s)
WORKSHEET_DESCRIPTION_FIELD(s) == WordField(s, "description")

\* MATCH_DISPLAY_EXPR.match(s): '.*' is greedy, so the last occurrence is the
\* one whose mode is captured; group 0 is all of s.
MATCH_DISPLAY_EXPR(s) ==
    LET P == {p \in 1..Len(s) : DisplayAt(s, p)}
    IN  IF P # {}
        THEN [matched |-> TRUE, g0 |-> Str(s), g1 |-> Str(<<s[Max(P) + 4]>>)]
        ELSE NoMatch

\* MATCH_FIELD_EXPR.match(s): the last position where the field grammar
\* matches; group 0 is all of s.
MATCH_FIELD_EXPR(s) ==
    LET P == {p \in 1..Len(s) : FieldAt(s, p, TRUE).matched}
    IN  IF P # {}
        THEN [FieldAt(s, Max(P), TRUE) EXCEPT !.g0 = Str(s)]
        ELSE NoMatch

----------------------------------------------------------------------------
(* expand_worksheet_item_info *)

\* FallbackRecord with the display mode defaulted instead of left out.
FallbackRecord_DefaultDisplay ==
    [type |-> Str(<<"directive">>), name |-> None, path |-> None, value |-> None,
     display |-> Str(<<"default">>)]

\* The dict returned for a directive text that matches neither grammar.
FallbackRecord ==
    [type |-> Str(<<"directive">>), name |-> None, path |-> None, value |-> None]

\* The dict returned when MATCH_DISPLAY_EXPR matched.
DisplayRecord(match_display) ==
    [type |-> Str(<<"directive">>), directive |-> Str(<<"display">>),
     display |-> match_display.g1, markup |-> match_display.g0]

\* The dict returned when MATCH_FIELD_EXPR matched.
FieldRecord(match_field) ==
    [type |-> Str(<<"directive">>), directive |-> match_field.g2,
     name |-> match_field.g1, path |-> match_field.g3,
     markup |-> match_field.g0]

expand_worksheet_item_info(value, type) ==
    IF type = "directive"
    THEN IF MATCH_DISPLAY_EXPR(value.s).matched
         THEN DisplayRecord(MATCH_DISPLAY_EXPR(value.s))
         ELSE IF MATCH_FIELD_EXPR(value.s).matched
         THEN FieldRecord(MATCH_FIELD_EXPR(value.s))
         ELSE FallbackRecord
    ELSE value

----------------------------------------------------------------------------
(* parse_worksheet_form and its table *)

parse_worksheet_form_bundle(match) ==
    LET value == IF match.g2 = None THEN None ELSE Str(Strip(match.g2.s))
    IN  <<Str(Strip(match.g3.s)), value, "bundle">>

\* parse_worksheet_form_display taking group 1, as the title lambda does.
parse_worksheet_form_display_Group1(match) == <<None, match.g1, "directive">>

parse_worksheet_form_display(match) == <<None, match.g0, "directive">>

parse_title(m) == <<None, m.g1, "title">>

parse_description(m) == <<None, m.g1, "description">>

\* The keys of parse_worksheet_parse_table.
TableKeys ==
    {"BUNDLE_LINE_REGEX", "BUNDLE_DISPLAY_DIRECTIVE", "BUNDLE_DISPLAY_FIELD",
     "WORKSHEET_TITLE_FIELD", "WORKSHEET_DESCRIPTION_FIELD"}

\* parse_worksheet_parse_table_exprs[line_parser].match(line)
TableMatch(line_parser, line) ==
    CASE line_parser = "BUNDLE_LINE_REGEX" -> BUNDLE_LINE_REGEX(line)
      [] line_parser = "BUNDLE_DISPLAY_DIRECTIVE" -> BUNDLE_DISPLAY_DIRECTIVE(line)
      [] line_parser = "BUNDLE_DISPLAY_FIELD" -> BUNDLE_DISPLAY_FIELD(line)
      [] line_parser = "WORKSHEET_TITLE_FIELD" -> WORKSHEET_TITLE_FIELD(line)
      [] line_parser = "WORKSHEET_DESCRIPTION_FIELD" -> WORKSHEET_DESCRIPTION_FIELD(line)

\* parse_worksheet_parse_table[line_parser](match)
parse_worksheet_parse_table(line_parser, match) ==
    CASE line_parser = "BUNDLE_LINE_REGEX" -> parse_worksheet_form_bundle(match)
      [] line_parser = "BUNDLE_DISPLAY_DIRECTIVE" -> parse_worksheet_form_display(match)
      [] line_parser = "BUNDLE_DISPLAY_FIELD" -> parse_worksheet_form_display(match)
      [] line_parser = "WORKSHEET_TITLE_FIELD" -> parse_title(match)
      [] line_parser = "WORKSHEET_DESCRIPTION_FIELD" -> parse_description(match)

\* The orders in which a dict of these five keys can be iterated: the
\* language fixes none, the order is the interpreter's.
TableOrders ==
    {o \in [1..Cardinality(TableKeys) -> TableKeys] :
        \A i, j \in DOMAIN o : i # j => o[i] # o[j]}

\* line[:2] == '//'
IsComment(line) == Len(line) >= 2 /\ line[1] = "/" /\ line[2] = "/"

\* The inner loop of parse_worksheet_form on a stripped line: the first key
\* of the iteration that matches is applied, markup if none does.
ClassifyLine(line, order) ==
    LET M == {i \in DOMAIN order : TableMatch(order[i], line).matched}
    IN  IF M = {}
        THEN <<None, Str(line), "markup">>
        ELSE parse_worksheet_parse_table(order[Min(M)], TableMatch(order[Min(M)], line))

\* ParseLine with the comment test made on the line as typed.
ParseLine_CommentBeforeStrip(raw, order) ==
    IF IsComment(raw) THEN <<>> ELSE <<ClassifyLine(Strip(raw), order)>>

\* One turn of the outer loop: what the line appends to result.
ParseLine(raw, order) ==
    LET line == Strip(raw)
    IN  IF IsComment(line) THEN <<>> ELSE <<ClassifyLine(line, order)>>

RECURSIVE parse_worksheet_form(_, _)
parse_worksheet_form(form, order) ==
    IF form = <<>> THEN <<>>
    ELSE ParseLine(Head(form), order) \o parse_worksheet_form(Tail(form), order)

----------------------------------------------------------------------------
(* get_worksheet_lines *)

BrokenComment == <<"/", "/", " ", "The following bundle reference is broken", ":">>

\* What the generator yields for one item, and the exception it raises.
RenderItem(item) ==
    LET bundle_info == item[1]
        value == item[2]
        type == item[3]
    IN  IF type = "directive"
        THEN IF IsDict(value) /\ "markup" \in DOMAIN value
             THEN [lines |-> <<value.markup.s>>, err |-> "none"]
             ELSE IF IsDict(value)
             THEN [lines |-> <<>>, err |-> "KeyError"]
             ELSE [lines |-> <<>>, err |-> "TypeError"]
        ELSE IF type \in {"title", "description"}
        THEN [lines |-> << <<"%", " ", type, ":", " ">> \o PyFormat(value) >>,
              err |-> "none"]
        ELSE IF bundle_info = None
        THEN [lines |-> <<value.s>>, err |-> "none"]
        ELSE [lines |->
                (IF "bundle_type" \notin DOMAIN bundle_info
                 THEN <<BrokenComment>> ELSE <<>>)
                \o << <<"[">> \o PyFormat(value) \o <<"]", "{">>
                      \o PyFormat(bundle_info.uuid) \o <<"}">> >>,
              err |-> "none"]

\* The lines yielded up to the first exception, and that exception.
RECURSIVE RenderItems(_)
RenderItems(items) ==
    IF items = <<>> THEN [lines |-> <<>>, err |-> "none"]
    ELSE LET first == RenderItem(Head(items))
             rest == RenderItems(Tail(items))
         IN  IF first.err # "none" THEN first
             ELSE [lines |-> first.lines \o rest.lines, err |-> rest.err]

get_worksheet_lines(info) == RenderItems(info.items)

----------------------------------------------------------------------------
(* request_new_items *)

RECURSIVE Join(_, _)
\* sep.join(parts)
Join(parts, sep) ==
    IF parts = <<>> THEN <<>>
    ELSE IF Len(parts) = 1 THEN parts[1]
    ELSE parts[1] \o sep \o Join(Tail(parts), sep)

RECURSIVE Split(_)
\* s.split('\n'): the pieces between the newlines, one more than newlines.
Split(s) ==
    LET n == FirstIdx(s, 1, {"\n"})
    IN  IF n > Len(s) THEN <<s>>
        ELSE <<Slice(s, 1, n - 1)>> \o Split(Slice(s, n + 1, Len(s)))

RECURSIVE ReadLines(_)
\* file.readlines() of a file opened 'rb': each line with the newline that
\* ends it, the last one without if the file does not end with one.
ReadLines(s) ==
    LET n == FirstIdx(s, 1, {"\n"})
    IN  IF s = <<>> THEN <<>>
        ELSE IF n > Len(s) THEN <<s>>
        ELSE <<Slice(s, 1, n)>> \o ReadLines(Slice(s, n + 1, Len(s)))

\* line[:-1] if line.endswith('\n') else line
Chomp(line) ==
    IF line # <<>> /\ line[Len(line)] = "\n"
    THEN Slice(line, 1, Len(line) - 1) ELSE line

\* The header, with the worksheet's name formatted in, as one string.
Header(name) ==
    <<"/", "/", " ", "Full-text editing for worksheet", " ">> \o PyFormat(name)
    \o <<".", " ", "This file is basically Markdown, except", "\n",
         "/", "/", " ", "that is used for comments and that lines of the form",
         " ", "{", "bundle_spec", "}", " ", "are", "\n",
         "/", "/", " ", "resolved as links to CodaLab bundles. You can even preface the curly braces", "\n",
         "/", "/", " ", "with bracketed help text, like so", ":", " ",
         "[", "some explanatory text", "]", "{", "bundle_spec", "}">>

\* os.linesep: '\n', and '\r\n' on Windows.
LineSeps == {<<"\n">>, <<"\r", "\n">>}

\* What the user does in the editor: quit without a change, write the buffer
\* back as it is (the editor ends the file with a newline), add a line at
\* the end, or empty the file.
Edits == {"quit", "write", "append", "clear"}

\* The line the user adds.
AppendedLine == <<"{", "a1b2c3", "}">>

\* The bytes of the file after the editor has run on a file holding tmpl.
Editor(edit, tmpl) ==
    CASE edit = "quit" -> tmpl
      [] edit = "write" -> tmpl \o <<"\n">>
      [] edit = "append" -> tmpl \o <<"\n">> \o AppendedLine \o <<"\n">>
      [] edit = "clear" -> <<>>

\* The end of request_new_items: the lines read back lose the newline that
\* ends them and are compared with the template's; the same, UsageError is
\* raised, else they are parsed under the table's order.
CheckForm(tlines, tmpl, after, read, order) ==
    IF [i \in 1..Len(read) |-> Chomp(read[i])] = tlines
    THEN [template_lines |-> tlines, template |-> tmpl, edited |-> after,
          err |-> "UsageError", result |-> <<>>]
    ELSE [template_lines |-> tlines, template |-> tmpl, edited |-> after,
          err |-> "none",
          result |-> parse_worksheet_form([i \in 1..Len(read) |-> Chomp(read[i])], order)]

\* The middle of request_new_items: the template is written to the file,
\* the editor runs on it and the file is read back line by line; were the
\* file not there, the lines would be the template's.
ShowForm(tlines, tmpl, order, isfile, edit) ==
    IF isfile
    THEN CheckForm(tlines, tmpl, Editor(edit, tmpl), ReadLines(Editor(edit, tmpl)), order)
    ELSE CheckForm(tlines, tmpl, tmpl, tlines, order)

\* The start of request_new_items: the template's lines are the header's and
\* the rendered ones; an exception of the renderer ends the call.
BuildTemplate(rendered, header_lines, order, linesep, isfile, edit) ==
    IF rendered.err # "none"
    THEN [template_lines |-> header_lines \o rendered.lines, template |-> <<>>,
          edited |-> <<>>, err |-> rendered.err, result |-> <<>>]
    ELSE ShowForm(header_lines \o rendered.lines,
                  Join(header_lines \o rendered.lines, linesep), order, isfile, edit)

\* request_new_items(info), under the table's order: the template's lines,
\* the bytes of the file after the editor, the exception raised and the items
\* returned.  isfile is os.path.isfile(tempfile_name).
request_new_items(info, order, linesep, isfile, edit) ==
    BuildTemplate(get_worksheet_lines(info), Split(Header(info.name)),
                  order, linesep, isfile, edit)

----------------------------------------------------------------------------
(* The inputs *)

MaxPad == 1
MaxLines == 2
MaxItems == 1

RECURSIVE SeqsUpTo(_, _)
\* The sequences over S of length at most n.
SeqsUpTo(S, n) ==
    IF n = 0 THEN {<<>>}
    ELSE LET R == SeqsUpTo(S, n - 1)
         IN  R \cup {Append(r, x) : r \in R, x \in S}

\* What is typed before or after the core of a line.
Pads == SeqsUpTo({" ", "x"}, MaxPad)

\* The cores of the lines: each shape of the grammar, and the overlaps.
Cores ==
    { <<>>,
      <<"x">>,
      <<"/", "/", "x">>,
      <<"{", "a1b2c3", "}">>,
      <<"[", "x", "]", "{", "a1b2c3", "}">>,
      <<"[", " ", "x", " ", "x", " ", "]", " ", "{", " ", "a1b2c3", " ", "}">>,
      <<"[", "]", "{", "a1b2c3", "}">>,
      <<"[", "x", "]", "{", "x", "]", "{", "a1b2c3", "}">>,
      <<"%", " ", "display", " ", "table">>,
      <<"%", " ", "display", " ", "inline", " ", "%", " ", "display", " ", "default">>,
      <<"%", " ", "display", " ", "x">>,
      <<"%", " ", "x", ":", " ", "image", "/", "x">>,
      <<"%", " ", "x", ":", " ", "metadata", "/">>,
      <<"%", " ", "x", ":", " ", "x", "/", "x">>,
      <<"%", " ", "title", ":", " ", "image", "/", "x">>,
      <<"%", " ", "description", ":", " ", "metadata", "/", "x">>,
      <<"%", " ", "display", " ", "table", ":", " ", "image", "/", "x">>,
      <<"%", " ", "title", ":", " ", "x">>,
      <<"%", "title", ":", "x">>,
      <<"%", " ", "description", ":", " ", "x", " ", "x">>,
      <<"%", " ", " ", "description", ":", "x">>,
      <<"%", " ", "x">> }

\* The lines of a form: a core with something typed before it or after it.
Lines == {p \o c : p \in Pads, c \in Cores} \cup {c \o p : p \in Pads, c \in Cores}

\* The lines of the forms of several lines.
ShortLines ==
    { <<"x">>,
      <<"/", "/", "x">>,
      <<" ", "/", "/">>,
      <<"{", "a1b2c3", "}">>,
      <<"%", " ", "display", " ", "table">>,
      <<"%", " ", "title", ":", " ", "image", "/", "x">> }

\* The forms parse_worksheet_form is given.
Forms == {<<l>> : l \in Lines} \cup SeqsUpTo(ShortLines, MaxLines)

\* The names of the worksheets.
Names == {Str(<<"x">>), Str(<<"x", "\n", "x">>)}

\* The texts of the directive items the store holds.
DirectiveTexts ==
    { <<"%", " ", "display", " ", "table">>,
      <<"%", " ", "x", ":", " ", "image", "/", "x">>,
      <<"%", " ", "x">>,
      <<>> }

\* The items (bundle_uuid, value, type) the store holds for a worksheet.
StoredItems ==
    {<<None, Str(v), "markup">> : v \in {<<"x">>, <<"x", "\n", "x">>, <<>>}}
    \cup {<<Str(<<"a1b2c3">>), v, "bundle">> :
            v \in {None, Str(<<>>), Str(<<"x">>), Str(<<" ", "x">>)}}
    \cup {<<None, Str(v), "directive">> : v \in DirectiveTexts}
    \cup {<<None, Str(<<"x">>), k>> : k \in {"title", "description"}}

\* The bundle_info of a bundle, with its metadata or without.
BundleInfo(uuid, complete) ==
    IF complete THEN [uuid |-> uuid, bundle_type |-> Str(<<"dataset">>)]
    ELSE [uuid |-> uuid]

----------------------------------------------------------------------------
(* The state machine *)

\* The module is loaded and the dict built; then either a form is at hand
\* to be parsed, or the items of a worksheet of the store.
InitWith(names) ==
    /\ table \in TableOrders
    /\ worksheet_info \in [name : names, items : {<<>>}]
    /\ lines = <<>>
    /\ template_lines = <<>>
    /\ template = <<>>
    /\ edited = <<>>
    /\ err = "none"

FromForm ==
    /\ pc = "form"
    /\ form_result \in Forms
    /\ result = <<>>

FromStore ==
    /\ pc = "items"
    /\ form_result = <<>>
    /\ result \in SeqsUpTo(StoredItems, MaxItems)

Init == InitWith({Str(<<"x">>)}) /\ (FromForm \/ FromStore)

\* parse_worksheet_form(form_result)
ParseForm ==
    /\ pc = "form"
    /\ result' = parse_worksheet_form(form_result, table)
    /\ pc' = "items"
    /\ UNCHANGED <<table, form_result, worksheet_info, lines, template_lines,
                   template, edited, err>>

\* The caller makes the worksheet info dict of the items: each value goes
\* through expand_worksheet_item_info, each bundle uuid gets the bundle_info
\* the store has for it, with its metadata or without.
ExpandItems ==
    /\ pc = "items"
    /\ \E complete \in BOOLEAN :
        worksheet_info' =
            [worksheet_info EXCEPT !.items =
                [i \in 1..Len(result) |->
                    <<IF result[i][1] = None THEN None
                      ELSE BundleInfo(result[i][1], complete),
                      expand_worksheet_item_info(result[i][2], result[i][3]),
                      result[i][3]>>]]
    /\ pc' = "worksheet"
    /\ UNCHANGED <<table, form_result, result, lines, template_lines, template,
                   edited, err>>

\* list(get_worksheet_lines(worksheet_info))
GetWorksheetLines ==
    /\ pc = "worksheet"
    /\ \E r \in {get_worksheet_lines(worksheet_info)} :
        /\ lines' = r.lines
        /\ err' = r.err
    /\ pc' = "rendered"
    /\ UNCHANGED <<table, form_result, result, worksheet_info, template_lines,
                   template, edited>>

\* parse_worksheet_form on the lines just rendered.
ParseLines ==
    /\ pc = "rendered"
    /\ err = "none"
    /\ form_result' = lines
    /\ result' = parse_worksheet_form(lines, table)
    /\ pc' = "reparsed"
    /\ UNCHANGED <<table, worksheet_info, lines, template_lines, template, edited, err>>

\* request_new_items(worksheet_info)
RequestNewItems ==
    /\ pc = "worksheet"
    /\ \E linesep \in LineSeps, isfile \in BOOLEAN, edit \in Edits :
        \E r \in {request_new_items(worksheet_info, table, linesep, isfile, edit)} :
            /\ template_lines' = r.template_lines
            /\ template' = r.template
            /\ edited' = r.edited
            /\ err' = r.err
            /\ result' = r.result
    /\ pc' = "edited"
    /\ UNCHANGED <<table, form_result, worksheet_info, lines>>

\* The functions of the grammar, called on forms and on items.
Next ==
    \/ ParseForm
    \/ ExpandItems
    \/ GetWorksheetLines
    \/ ParseLines

Spec == Init /\ [][Next]_vars

\* The edit session, on the worksheets of the store.
InitEdit == InitWith(Names) /\ FromStore

NextEdit ==
    \/ ExpandItems
    \/ RequestNewItems

SpecEdit == InitEdit /\ [][NextEdit]_vars

----------------------------------------------------------------------------
(* The properties *)

ItemKinds == {"markup", "bundle", "directive", "title", "description"}

\* The order in which the source lists the keys of parse_worksheet_parse_table.
SourceOrder ==
    <<"BUNDLE_LINE_REGEX", "BUNDLE_DISPLAY_DIRECTIVE", "BUNDLE_DISPLAY_FIELD",
      "WORKSHEET_TITLE_FIELD", "WORKSHEET_DESCRIPTION_FIELD">>

\* result holds the items parse_worksheet_form made of a form of some lines.
FormParsed == pc \in {"items", "worksheet", "rendered"} /\ Len(form_result) >= 1

\* Every bundle of the worksheet has its metadata.
Complete(info) ==
    \A i \in 1..Len(info.items) :
        info.items[i][1] # None => "bundle_type" \in DOMAIN info.items[i][1]

\* The text holds '% display (table|default|inline)' somewhere.
HoldsDisplay(s) == \E p \in 1..Len(s) : DisplayAt(s, p)

\* The text holds '% <name>: (image|metadata)/' somewhere.
HoldsField(s) == \E p \in 1..Len(s) : FieldAt(s, p, TRUE).matched

\* The key k of the dict d is there and is not None.
Populated(d, k) == k \in DOMAIN d /\ d[k] # None

\* C1: a line that is no comment, parsed alone, expanded, given complete
\* metadata and rendered, comes back as that one line, character for
\* character.
C1_RoundTrip ==
    (/\ pc = "rendered"
     /\ Len(form_result) = 1
     /\ ~IsComment(form_result[1])
     /\ Complete(worksheet_info))
    => (err = "none" /\ lines = form_result)

\* C2 as stated: parsing returns one item for each line that does not begin
\* with '//', and none for the lines that do.
C2_Original ==
    (pc = "items" /\ Len(form_result) >= 1)
    => Len(result) = Len(SelectSeq(form_result, LAMBDA l : ~IsComment(l)))

\* C2 as amended: parsing returns one item for each line that, stripped of
\* the whitespace around it, does not begin with '//', in the order of the
\* lines: the k-th item is the item of the k-th such line parsed alone, and
\* its kind is one of the five.
C2_ParseTotalOrdered ==
    ((pc = "items" /\ Len(form_result) >= 1) \/ pc = "reparsed")
    => LET kept == SelectSeq(form_result, LAMBDA l : ~IsComment(Strip(l)))
       IN  /\ Len(result) = Len(kept)
           /\ \A k \in 1..Len(kept) :
                /\ k <= Len(result)
                /\ <<result[k]>> = parse_worksheet_form(<<kept[k]>>, table)
                /\ result[k][3] \in ItemKinds

\* C2's case: a form of two lines, an indented comment and a line of text,
\* has been parsed to the one item of the second.
C2_Witness ==
    /\ pc = "items"
    /\ form_result = << <<" ", "/", "/">>, <<"x">> >>
    /\ result = << <<None, Str(<<"x">>), "markup">> >>

\* C3: rendering raises no exception, whatever the items.
C3_RenderNeverFails == pc = "rendered" => err = "none"

\* C4: the items of a form are those the grammars give when tried in the
\* order bundle, display, field, title, description, whatever the order in
\* which the dict is iterated.
C4_FixedPrecedence ==
    (pc = "items" /\ Len(form_result) >= 1)
    => result = parse_worksheet_form(form_result, SourceOrder)

\* C5: where lines end with '\n', an editor that leaves the file as the
\* template was written makes request_new_items raise UsageError.
C5_NoChange ==
    (/\ pc = "edited"
     /\ err \notin {"KeyError", "TypeError"}
     /\ \A i \in 1..Len(template) : template[i] # "\r"
     /\ edited = template)
    => err = "UsageError"

\* C6: a directive text that holds neither grammar expands to a dict whose
\* name, path and value are None and that has no display; and no directive
\* text expands to a dict with both a display and a name or a path.
C6_DirectiveFallback ==
    pc = "worksheet"
    => \A i \in 1..Len(result) :
        result[i][3] = "directive" =>
            LET text == result[i][2].s
                d == worksheet_info.items[i][2]
            IN  /\ (~HoldsDisplay(text) /\ ~HoldsField(text))
                    => /\ IsDict(d)
                       /\ ~Populated(d, "name")
                       /\ ~Populated(d, "path")
                       /\ ~Populated(d, "value")
                       /\ ~Populated(d, "display")
                       /\ {"name", "path", "value"} \subseteq DOMAIN d
                /\ ~(Populated(d, "display")
                     /\ (Populated(d, "name") \/ Populated(d, "path")))

\* C6's case: a directive item of the store that holds neither grammar has
\* been expanded.
C6_Witness ==
    /\ pc = "worksheet"
    /\ Len(result) = 1
    /\ result[1] = <<None, Str(<<"%", " ", "x">>), "directive">>
    /\ worksheet_info.items[1][2] = FallbackRecord

\* C7: the line rendered for a bundle item is '[' value ']{' uuid '}', with
\* nothing between the brackets when the value is empty or None.
C7_BracketsAlways ==
    (/\ pc = "rendered"
     /\ Len(worksheet_info.items) = 1
     /\ worksheet_info.items[1][3] = "bundle")
    => LET item == worksheet_info.items[1]
       IN  /\ err = "none"
           /\ lines # <<>>
           /\ lines[Len(lines)] =
                <<"[">> \o (IF item[2] = None THEN <<>> ELSE item[2].s)
                \o <<"]", "{">> \o item[1].uuid.s \o <<"}">>

\* C8: a bundle item whose bundle_info has no bundle_type renders as a
\* comment line and the reference line, and these two lines parse back to
\* one bundle item of the same uuid and the same value.
C8_BrokenReference ==
    (/\ pc = "reparsed"
     /\ Len(worksheet_info.items) = 1
     /\ worksheet_info.items[1][3] = "bundle"
     /\ "bundle_type" \notin DOMAIN worksheet_info.items[1][1])
    => /\ Len(lines) = 2
       /\ IsComment(lines[1])
       /\ result = << <<worksheet_info.items[1][1].uuid,
                        worksheet_info.items[1][2], "bundle">> >>

\* C9 as stated: a line that is no comment and no bundle line and holds a
\* display directive anywhere is a directive item, and a line is a
\* directive item exactly when the expander finds a grammar in it.
C9_Original ==
    (/\ pc = "items"
     /\ Len(form_result) = 1
     /\ ~IsComment(Strip(form_result[1]))
     /\ ~BUNDLE_LINE_REGEX(Strip(form_result[1])).matched)
    => LET line == Strip(form_result[1])
       IN  /\ HoldsDisplay(line) => result[1][3] = "directive"
           /\ result[1][3] = "directive" <=> (HoldsDisplay(line) \/ HoldsField(line))

\* C9 as amended: the classifier matches at the start of the stripped line.
\* A line that is no comment and begins, once stripped, with a display
\* directive is a directive item; and the expander finds a grammar in every
\* line that is a directive item.
C9_AnchoredDirective ==
    (/\ pc = "items"
     /\ Len(form_result) = 1
     /\ ~IsComment(Strip(form_result[1])))
    => LET line == Strip(form_result[1])
       IN  /\ Len(result) = 1
           /\ DisplayAt(line, 1) => result[1][3] = "directive"
           /\ result[1][3] = "directive" => (HoldsDisplay(line) \/ HoldsField(line))

\* C9's case: a display directive with text after it has been parsed, to a
\* directive item.
C9_Witness ==
    /\ pc = "items"
    /\ form_result = << <<"%", " ", "display", " ", "table", "x">> >>
    /\ result[1][3] = "directive"

\* C10: the value of every directive item the parser makes expands to a
\* dict that is no fallback and whose markup is that value, and the items
\* of a parsed form render without an exception, a directive item as its
\* value.
C10_ClassifierExpanderAgree ==
    /\ (FormParsed /\ pc \in {"worksheet", "rendered"})
        => \A i \in 1..Len(result) :
            result[i][3] = "directive" =>
                LET d == worksheet_info.items[i][2]
                IN  /\ IsDict(d)
                    /\ d # FallbackRecord
                    /\ Populated(d, "display") \/ Populated(d, "name")
                    /\ "markup" \in DOMAIN d
                    /\ d.markup = result[i][2]
    /\ (FormParsed /\ pc = "rendered")
        => /\ err = "none"
           /\ (Len(result) = 1 /\ result[1][3] = "directive")
                => lines = <<result[1][2].s>>

\* C10's case: the line of a field directive was
\* parsed, expanded and rendered.
C10_Witness ==
    /\ pc = "rendered"
    /\ Len(form_result) = 1
    /\ Len(result) = 1
    /\ result[1][3] = "directive"
    /\ Populated(worksheet_info.items[1][2], "name")
    /\ lines = <<result[1][2].s>>

====
